---- MODULE Spec2Model ----
(***************************************************************************)
(* Model of the element-addressable session engine of                      *)
(* omniparser-autogui-mcp (src/src/mcp_autogui/mcp_autogui_main.py).       *)
(*                                                                         *)
(* The closure variables of mcp_autogui_main are the state.  The tool      *)
(* handlers are coroutines of one asyncio loop: a handler runs atomically  *)
(* from one await to the next.  The analysis pass runs on a real thread,   *)
(* so each of its statements that touches shared state is a separate step. *)
(*                                                                         *)
(* Python's None is the empty sequence, a present value v is <<v>>.        *)
(***************************************************************************)
EXTENDS Integers, Sequences, FiniteSets, TLC

\* ---------------------------------------------------------------- bounds
MaxPasses == 2
NCallers == 2
NScreens == 2
\* passes started in DispatchSpec
DispatchPasses == 1

\* ------------------------------------------------------ program constants
INPUT_IMAGE_SIZE == 960
PADDING_SIZE == 0

\* pyautogui.size() of the modelled desktop
ScreenWidth == 1920
ScreenHeight == 1080

Callers == 1..NCallers
Passes == 1..MaxPasses
Screens == 1..NScreens
Windows == {"w1", "w2"}
\* ids the handlers are called with: 0 and 1 exist on some screens, 2 on none
Ids == {0, 1, 2}
\* (button, clicks) of the click calls and (button, key) of the drag calls
ClickModes == {<<"left", 1>>, <<"right", 2>>}
DragModes == {<<"left", "">>, <<"right", "shift">>}
\* texts as sequences of code points: "", "hi" and a non-ASCII one
Contents == {<<>>, <<104, 105>>, <<12371>>}

None == <<>>
Some(v) == <<v>>
Val(o) == o[1]
NoThread == 0

VARIABLES
  omniparser_thread,  \* NoThread, or the pass held in the thread slot
  result_image,       \* None, or Some(bytes of the BytesIO buffer)
  detail,             \* None, or Some(result of parse_raw)
  is_finished,
  current_mouse_x, current_mouse_y, current_window,
  tpc,                \* tpc[p]: position of pass p in omniparser_thread_func
  shot,               \* shot[p]: screenshot_image of pass p
  owner,              \* owner[p]: the call whose detail_text pass p is bound to
  pcc,                \* pcc[c]: position of caller c in omniparser_details_on_screen
  detail_text,        \* detail_text[c]: the local of caller c's running call
  ret,                \* ret[c]: what caller c's last call returned
  waited,             \* waited[c]: the pass in the thread slot when c's call passed line 96
  started,            \* number of passes started
  held,               \* detail just before the last pass was requested
  returned_since,     \* summaries returned since the last analyze request
  last,               \* the last action handler call: arguments, outcome, collaborator calls
  mapped              \* the last evaluation of the coordinate expressions on given operands

vars == <<omniparser_thread, result_image, detail, is_finished,
          current_mouse_x, current_mouse_y, current_window,
          tpc, shot, owner, pcc, detail_text, ret, waited, started, held,
          returned_since, last, mapped>>

analysis_vars == <<omniparser_thread, result_image, detail, is_finished,
                   tpc, shot, owner, pcc, detail_text, ret, waited, started,
                   held, returned_since>>

context_vars == <<current_mouse_x, current_mouse_y, current_window>>

\* ------------------------------------------------- collaborators' results

\* The i-th (0-based) element the analysis collaborator detects on screen s.
Compos(s, i) ==
  [id |-> i,
   type |-> IF i % 2 = 0 THEN "text" ELSE "icon",
   content |-> <<"caption", s, i>>,
   position |-> [column_min |-> 100 * s + 200 * i,
                 column_max |-> 100 * s + 200 * i + 100,
                 row_min |-> 10 * s + 40 * i,
                 row_max |-> 10 * s + 40 * i + 20]]

\* Screens for which the analysis collaborator reports a degenerate image
\* shape: zero rows for the first, zero columns for the second.
MalformedScreens == {101, 102}

\* detail['img_shape'] = (rows, columns) of the analysed image
ImgShape(s) ==
  IF s = 101 THEN <<0, 960>>
  ELSE IF s = 102 THEN <<960, 0>>
  ELSE <<960, 960>>

\* omniparser.parse_raw(screenshot_image)[1]: an odd screen shows one
\* element, an even screen two.  The code reads the value both ways: the
\* summary loop iterates it as the elements (line 87) and the handlers
\* subscript it with 'compos' and 'img_shape' (lines 118-121).
ParseRaw(s) ==
  [compos |-> [k \in 1..(2 - (s % 2)) |-> Compos(s, k - 1)],
   img_shape |-> ImgShape(s)]

\* lines 74-84: the labelled image scaled to INPUT_IMAGE_SIZE, saved as png.
Resize(width, height) ==
  IF width > height
  THEN <<INPUT_IMAGE_SIZE, (INPUT_IMAGE_SIZE * height) \div width>>
  ELSE <<(INPUT_IMAGE_SIZE * width) \div height, INPUT_IMAGE_SIZE>>

Png(s) == <<[format |-> "png", of |-> s, size |-> Resize(ScreenWidth, ScreenHeight)]>>

EmptyBytes == <<>>

\* lines 86-88: one line "ID: {loop}, {type}: {content}" per element.
Summary(d) ==
  [k \in 1..Len(d.compos) |-> <<k - 1, d.compos[k].type, d.compos[k].content>>]

\* ------------------------------------------------------------------ Init
NoCall ==
  [op |-> "none", id |-> -1, to_id |-> -1, button |-> "", key |-> "",
   content |-> <<>>, keys |-> <<>>, name |-> "", arguments |-> {},
   returned |-> <<>>, result |-> "none", events |-> <<>>]

NoMapping ==
  [status |-> "none",
   position |-> [column_min |-> 0, column_max |-> 0, row_min |-> 0, row_max |-> 0],
   img_shape |-> <<0, 0>>, screen |-> <<0, 0>>, padding |-> 0, x |-> 0, y |-> 0,
   drag |-> "none"]

Init ==
  /\ omniparser_thread = NoThread
  /\ result_image = None
  /\ detail = None
  /\ is_finished = FALSE
  /\ current_mouse_x = 5
  /\ current_mouse_y = 7
  /\ current_window \in Windows
  /\ tpc = [p \in Passes |-> "new"]
  /\ shot = [p \in Passes |-> 0]
  /\ owner = [p \in Passes |-> 0]
  /\ pcc = [c \in Callers |-> "idle"]
  /\ detail_text = [c \in Callers |-> <<>>]
  /\ ret = [c \in Callers |-> None]
  /\ waited = [c \in Callers |-> NoThread]
  /\ started = 0
  /\ held = None
  /\ returned_since = {}
  /\ last = NoCall
  /\ mapped = NoMapping

\* ---------------------------------------------- omniparser_details_on_screen

\* line 91
ThreadSlotFree_always == TRUE
ThreadSlotFree_or_finished == omniparser_thread = NoThread \/ is_finished
ThreadSlotFree == omniparser_thread = NoThread

\* line 98: the loop condition "not is_finished" is false
WhileExits_always == TRUE
WhileExits == is_finished

\* line 99: the wait is "await asyncio.sleep", which hands the request loop
\* back, so no handler holds the loop between two steps.
LoopHeld_while_polling == \E c \in Callers : pcc[c] = "polling"
LoopHeld == FALSE

\* line 103: result_image.getvalue(); awaited tells whether the call slept
\* at line 99 before it returned.
Returned(text, image, awaited) ==
  IF image = None
  THEN [status |-> "AttributeError", summary |-> <<>>, image |-> EmptyBytes,
        awaited |-> awaited]
  ELSE [status |-> "ok", summary |-> text, image |-> Val(image),
        awaited |-> awaited]

\* The call's frame is gone: no pass is bound to caller c's detail_text any more.
Unbind(c) == [p \in Passes |-> IF owner[p] = c THEN 0 ELSE owner[p]]

\* lines 64-98: the call up to its first await (or its return when the
\* while condition is false on entry).  A pass the call starts is recorded
\* under the name p and brings the count of passes to n.
Request(c, p, n) ==
  /\ ~LoopHeld
  /\ pcc[c] # "polling"
  /\ IF ThreadSlotFree
     THEN /\ p \in Passes
          /\ result_image' = None
          /\ detail' = None
          /\ is_finished' = FALSE
          /\ omniparser_thread' = p
          /\ started' = n
          /\ tpc' = [tpc EXCEPT ![p] = "l70"]
          /\ owner' = [Unbind(c) EXCEPT ![p] = c]
          /\ held' = detail
          /\ waited' = [waited EXCEPT ![c] = p]
          /\ pcc' = [pcc EXCEPT ![c] = "polling"]
          /\ ret' = [ret EXCEPT ![c] = None]
          /\ detail_text' = [detail_text EXCEPT ![c] = <<>>]
     ELSE /\ waited' = [waited EXCEPT ![c] = omniparser_thread]
          /\ owner' = Unbind(c)
          /\ detail_text' = [detail_text EXCEPT ![c] = <<>>]
          /\ UNCHANGED <<result_image, detail, is_finished, started, tpc, held>>
          /\ IF WhileExits
             THEN \* lines 101-103 without a single await
                  /\ omniparser_thread' = NoThread
                  /\ ret' = [ret EXCEPT ![c] = Some(Returned(<<>>, result_image, FALSE))]
                  /\ pcc' = [pcc EXCEPT ![c] = "returned"]
             ELSE /\ pcc' = [pcc EXCEPT ![c] = "polling"]
                  /\ ret' = [ret EXCEPT ![c] = None]
                  /\ UNCHANGED omniparser_thread
  /\ returned_since' =
       IF pcc'[c] = "returned" THEN {Val(ret'[c]).summary} ELSE {}
  /\ UNCHANGED <<shot, context_vars, last, mapped>>

\* The passes are named in the order they start, MaxPasses of them at most.
omniparser_details_on_screen(c) == Request(c, started + 1, started + 1)

\* lines 98-103: a wake-up from asyncio.sleep that finds is_finished set.
\* (A wake-up that finds it unset changes nothing.)
Poll(c) ==
  /\ pcc[c] = "polling"
  /\ WhileExits
  /\ omniparser_thread' = NoThread
  /\ ret' = [ret EXCEPT ![c] = Some(Returned(detail_text[c], result_image, TRUE))]
  /\ pcc' = [pcc EXCEPT ![c] = "returned"]
  /\ detail_text' = [detail_text EXCEPT ![c] = <<>>]
  /\ owner' = Unbind(c)
  /\ returned_since' = returned_since \cup {Val(ret'[c]).summary}
  /\ UNCHANGED <<result_image, detail, is_finished, tpc, shot, waited, started,
                 held, context_vars, last, mapped>>

\* line 99: the caller's request is cancelled while it sleeps.
Cancel(c) ==
  /\ pcc[c] = "polling"
  /\ pcc' = [pcc EXCEPT ![c] = "cancelled"]
  /\ detail_text' = [detail_text EXCEPT ![c] = <<>>]
  /\ owner' = Unbind(c)
  /\ UNCHANGED <<omniparser_thread, result_image, detail, is_finished, tpc, shot,
                 ret, waited, started, held, returned_since, context_vars, last, mapped>>

\* ------------------------------------------------------ omniparser_thread_func

Raise(p) ==
  /\ tpc' = [tpc EXCEPT ![p] = "raised"]
  /\ UNCHANGED <<omniparser_thread, result_image, detail, is_finished, shot,
                 owner, pcc, detail_text, ret, waited, started, held,
                 returned_since, context_vars, last, mapped>>

\* line 70
ThreadCapture(p, S) ==
  /\ tpc[p] = "l70"
  /\ \E s \in S :
       /\ shot' = [shot EXCEPT ![p] = s]
       /\ tpc' = [tpc EXCEPT ![p] = "l72"]
  /\ UNCHANGED <<omniparser_thread, result_image, detail, is_finished, owner,
                 pcc, detail_text, ret, waited, started, held, returned_since,
                 context_vars, last, mapped>>

\* line 72
ThreadParse(p) ==
  /\ tpc[p] = "l72"
  /\ detail' = Some(ParseRaw(shot[p]))
  /\ tpc' = [tpc EXCEPT ![p] = "l74"]
  /\ UNCHANGED <<omniparser_thread, result_image, is_finished, shot, owner,
                 pcc, detail_text, ret, waited, started, held, returned_since,
                 context_vars, last, mapped>>

\* lines 74-83: decode and resize (locals only), then a fresh empty BytesIO
ThreadBuffer(p) ==
  /\ tpc[p] = "l74"
  /\ result_image' = Some(EmptyBytes)
  /\ tpc' = [tpc EXCEPT ![p] = "l84"]
  /\ UNCHANGED <<omniparser_thread, detail, is_finished, shot, owner,
                 pcc, detail_text, ret, waited, started, held, returned_since,
                 context_vars, last, mapped>>

\* line 84
ThreadSave(p) ==
  /\ tpc[p] = "l84"
  /\ result_image' = Some(Png(shot[p]))
  /\ tpc' = [tpc EXCEPT ![p] = "l86"]
  /\ UNCHANGED <<omniparser_thread, detail, is_finished, shot, owner,
                 pcc, detail_text, ret, waited, started, held, returned_since,
                 context_vars, last, mapped>>

\* lines 86-88: detail_text is the local of the call that started the pass
ThreadText(p) ==
  /\ tpc[p] = "l86"
  /\ detail # None
  /\ detail_text' = [c \in Callers |->
                       IF owner[p] = c THEN Summary(Val(detail)) ELSE detail_text[c]]
  /\ tpc' = [tpc EXCEPT ![p] = "l90"]
  /\ UNCHANGED <<omniparser_thread, result_image, detail, is_finished, shot,
                 owner, pcc, ret, waited, started, held, returned_since,
                 context_vars, last, mapped>>

\* line 90
ThreadFinish(p) ==
  /\ tpc[p] = "l90"
  /\ is_finished' = TRUE
  /\ tpc' = [tpc EXCEPT ![p] = "done"]
  /\ UNCHANGED <<omniparser_thread, result_image, detail, shot, owner,
                 pcc, detail_text, ret, waited, started, held, returned_since,
                 context_vars, last, mapped>>

\* A collaborator raises in the statement the pass is at; nothing catches it
\* and the thread ends.
ThreadRaise(p) ==
  /\ tpc[p] \in {"l70", "l72", "l74", "l84", "l86"}
  /\ Raise(p)


\* ------------------------------------------------------- Coordinate Mapper

\* int() of a quotient: truncation towards zero
Trunc_nearest(n, d) == (2 * n + d) \div (2 * d)
Trunc(n, d) == IF n >= 0 THEN n \div d ELSE -((-n) \div d)

\* lines 120-121 with the margin as an operand:
\* int((lo + hi) * (extent + padding * 2) / shape / 2) - padding
MapCoordWith_no_offset(lo, hi, extent, shape, padding) ==
  Trunc((lo + hi) * (extent + padding * 2), shape * 2)
MapCoordWith(lo, hi, extent, shape, padding) ==
  Trunc((lo + hi) * (extent + padding * 2), shape * 2) - padding

\* lines 120-121: int((lo + hi) * (extent + PADDING_SIZE * 2) / shape / 2) - PADDING_SIZE
MapCoord(lo, hi, extent, shape) ==
  MapCoordWith(lo, hi, extent, shape, PADDING_SIZE)

MapX(compos, d) ==
  MapCoord(compos.position.column_min, compos.position.column_max,
           ScreenWidth, d.img_shape[2])

MapY(compos, d) ==
  MapCoord(compos.position.row_min, compos.position.row_max,
           ScreenHeight, d.img_shape[1])

\* lines 119, 144, 147, 175: compos['id'] == id
IdMatches_below(compos, id) == compos.id <= id
IdMatches(compos, id) == compos.id = id

Matching(d, id) == {k \in 1..Len(d.compos) : IdMatches(d.compos[k], id)}

Lowest(S) == CHOOSE k \in S : \A j \in S : k <= j
Highest(S) == CHOOSE k \in S : \A j \in S : k >= j

\* ---------------------------------------------------------- action handlers

Call(op, id, to_id, button, key, content, result, events) ==
  [op |-> op, id |-> id, to_id |-> to_id, button |-> button, key |-> key,
   content |-> content, keys |-> <<>>, name |-> "", arguments |-> {},
   returned |-> <<>>, result |-> result, events |-> events]

\* Whether the pointer call of omniparser_click and omniparser_mouse_move
\* raises (pyautogui's fail-safe check runs in it); "none": it completes.
PointFaults == {"none", "pointer"}

\* lines 116-125 and 172-181: the loop of omniparser_click and of
\* omniparser_mouse_move, which differ in the pointer call only.
PointAt(op, id, button, clicks, fail) ==
  IF detail = None
  THEN \* detail['compos'] on None
       /\ last' = Call(op, id, -1, button, "", <<>>, "TypeError", <<>>)
       /\ UNCHANGED context_vars
  ELSE LET d == Val(detail)
           m == Matching(d, id)
       IN IF m = {}
          THEN /\ last' = Call(op, id, -1, button, "", <<>>, "False", <<>>)
               /\ UNCHANGED context_vars
          ELSE LET compos == d.compos[Lowest(m)]
               IN IF d.img_shape[2] = 0
                  THEN /\ last' = Call(op, id, -1, button, "", <<>>,
                                       "ZeroDivisionError", <<>>)
                       /\ UNCHANGED context_vars
                  ELSE IF d.img_shape[1] = 0
                  THEN /\ current_mouse_x' = MapX(compos, d)
                       /\ last' = Call(op, id, -1, button, "", <<>>,
                                       "ZeroDivisionError", <<>>)
                       /\ UNCHANGED <<current_mouse_y, current_window>>
                  ELSE IF fail = "pointer"
                  THEN \* lines 120-121 have run when line 122 (178) raises
                       /\ current_mouse_x' = MapX(compos, d)
                       /\ current_mouse_y' = MapY(compos, d)
                       /\ last' = Call(op, id, -1, button, "", <<>>,
                                       "FailSafeException", <<>>)
                       /\ UNCHANGED current_window
                  ELSE /\ current_mouse_x' = MapX(compos, d)
                       /\ current_mouse_y' = MapY(compos, d)
                       /\ \E w \in Windows :
                            /\ current_window' = w
                            /\ last' = Call(op, id, -1, button, "", <<>>, "True",
                                 << IF op = "click"
                                    THEN <<"click", MapX(compos, d), MapY(compos, d),
                                           button, clicks>>
                                    ELSE <<"moveTo", MapX(compos, d), MapY(compos, d)>>,
                                    <<"getActiveWindow", w>> >>)

\* lines 106-125
omniparser_click(id, button, clicks, fail) ==
  /\ ~LoopHeld
  /\ PointAt("click", id, button, clicks, fail)
  /\ UNCHANGED <<analysis_vars, mapped>>

\* lines 164-181
omniparser_mouse_move(id, fail) ==
  /\ ~LoopHeld
  /\ PointAt("move", id, "", 0, fail)
  /\ UNCHANGED <<analysis_vars, mapped>>

\* line 150: the test by which omniparser_drags takes an id as not found
NotFound(from_x, to_x) == from_x = -1 \/ to_x = -1

\* The pyautogui calls of omniparser_drags taken to raise (its fail-safe
\* check runs in each of them); "none": every call completes.
DragFaults == {"none", "moveTo", "dragTo"}

\* lines 152-157: the input calls of a drag, in program order
DragCalls(key, from_x, from_y, to_x, to_y, button) ==
  (IF key # "" THEN << <<"keyDown", key>> >> ELSE <<>>)
    \o << <<"moveTo", from_x, from_y>>, <<"dragTo", to_x, to_y, button>> >>
    \o (IF key # "" THEN << <<"keyUp", key>> >> ELSE <<>>)

\* the calls completed before the call named fail raises (all of them when
\* no call has that name)
CompletedBefore(calls, fail) ==
  LET hit == {i \in 1..Len(calls) : calls[i][1] = fail}
  IN IF hit = {} THEN calls
     ELSE SubSeq(calls, 1, (CHOOSE i \in hit : \A k \in hit : i <= k) - 1)

\* lines 128-161; fail names the input call that raises, if any
omniparser_drags(from_id, to_id, button, key, fail) ==
  /\ ~LoopHeld
  /\ UNCHANGED <<analysis_vars, mapped>>
  /\ IF detail = None
     THEN /\ last' = Call("drag", from_id, to_id, button, key, <<>>, "TypeError", <<>>)
          /\ UNCHANGED context_vars
     ELSE LET d == Val(detail)
              mf == Matching(d, from_id)
              mt == Matching(d, to_id)
          IN IF (mf # {} \/ mt # {}) /\ (d.img_shape[1] = 0 \/ d.img_shape[2] = 0)
             THEN /\ last' = Call("drag", from_id, to_id, button, key, <<>>,
                                  "ZeroDivisionError", <<>>)
                  /\ UNCHANGED context_vars
             ELSE LET from_x == IF mf = {} THEN -1 ELSE MapX(d.compos[Highest(mf)], d)
                      to_x == IF mt = {} THEN -1 ELSE MapX(d.compos[Highest(mt)], d)
                  IN IF NotFound(from_x, to_x)
                     THEN /\ last' = Call("drag", from_id, to_id, button, key, <<>>,
                                          "False", <<>>)
                          /\ UNCHANGED context_vars
                     ELSE LET from_y == MapY(d.compos[Highest(mf)], d)
                              to_y == MapY(d.compos[Highest(mt)], d)
                              calls == DragCalls(key, from_x, from_y, to_x, to_y, button)
                              done == CompletedBefore(calls, fail)
                          IN IF done # calls
                             THEN \* the exception leaves the handler at once
                                  /\ last' = Call("drag", from_id, to_id, button, key,
                                                  <<>>, "FailSafeException", done)
                                  /\ UNCHANGED context_vars
                             ELSE /\ current_mouse_x' = to_x
                                  /\ current_mouse_y' = to_y
                                  /\ \E w \in Windows :
                                       /\ current_window' = w
                                       /\ last' = Call("drag", from_id, to_id, button,
                                            key, <<>>, "True",
                                            calls \o << <<"getActiveWindow", w>> >>)

\* lines 190-191, 205-206, 229-230: the stored window is activated, then the
\* pointer is put back at the stored position
Restore_pointer_first ==
  << <<"moveTo", current_mouse_x, current_mouse_y>>,
     <<"activate", current_window>> >>
Restore ==
  << <<"activate", current_window>>,
     <<"moveTo", current_mouse_x, current_mouse_y>> >>

\* str.isascii(): every code point is below 128
IsAscii(content) == \A i \in 1..Len(content) : content[i] < 128

\* line 202: the call names an element to click first
HasTarget_from_minus_one(id) == id >= -1
HasTarget(id) == id >= 0

\* lines 195-211
omniparser_write(content, id) ==
  /\ ~LoopHeld
  /\ UNCHANGED <<analysis_vars, mapped>>
  /\ UNCHANGED context_vars
  /\ IF HasTarget(id)
     THEN \* line 203: the name autogui_click is bound nowhere
          last' = Call("write", id, -1, "", "", content, "NameError", <<>>)
     ELSE last' = Call("write", id, -1, "", "", content, "None",
                       Restore
                       \o (IF IsAscii(content)
                           THEN << <<"write", content>> >>
                           ELSE << <<"copy", content>>, <<"hotkey", "ctrl", "v">> >>))

\* amounts omniparser_scroll is called with: up and down
ScrollClicks == {10, -10}

\* lines 184-192
omniparser_scroll_moving(clicks) ==
  /\ ~LoopHeld
  /\ UNCHANGED <<analysis_vars, mapped>>
  /\ current_mouse_y' = current_mouse_y + clicks
  /\ UNCHANGED <<current_mouse_x, current_window>>
  /\ last' = Call("scroll", -1, -1, "", "", <<>>, "None",
                  Restore \o << <<"scroll", clicks>> >>)
omniparser_scroll(clicks) ==
  /\ ~LoopHeld
  /\ UNCHANGED <<analysis_vars, mapped>>
  /\ UNCHANGED context_vars
  /\ last' = Call("scroll", -1, -1, "", "", <<>>, "None",
                  Restore \o << <<"scroll", clicks>> >>)

\* lines 214-220: pyautogui.KEYBOARD_KEYS is returned as it is
omniparser_get_keys_list ==
  /\ ~LoopHeld
  /\ UNCHANGED <<analysis_vars, mapped>>
  /\ UNCHANGED context_vars
  /\ last' = Call("get_keys_list", -1, -1, "", "", <<>>, "KEYBOARD_KEYS", <<>>)

\* key names omniparser_input_key is called with; "" is the default of key2, key3
FirstKeys == {"ctrl"}
SecondKeys == {"", "shift"}
ThirdKeys == {"", "c"}

Reverse(q) == [i \in 1..Len(q) |-> q[Len(q) + 1 - i]]

\* pyautogui.hotkey(*keys): the keys go down in argument order and come up
\* in reverse order
Hotkey(keys) ==
  [i \in 1..Len(keys) |-> <<"keyDown", keys[i]>>]
    \o [i \in 1..Len(keys) |-> <<"keyUp", Reverse(keys)[i]>>]

\* lines 231-236: the arguments handed to pyautogui.hotkey
HotkeyArgs(key1, key2, key3) ==
  IF key2 # "" /\ key3 # "" THEN <<key1, key2, key3>>
  ELSE IF key2 # "" THEN <<key1, key2>>
  ELSE <<key1>>

\* lines 223-236
omniparser_input_key(key1, key2, key3) ==
  /\ ~LoopHeld
  /\ UNCHANGED <<analysis_vars, mapped>>
  /\ UNCHANGED context_vars
  /\ last' = [Call("input_key", -1, -1, "", "", <<>>, "None",
                    Restore
                    \o Hotkey(HotkeyArgs(key1, key2, key3)))
              EXCEPT !.keys = <<key1, key2, key3>>]

\* ------------------------------------------- MCPAutoGUIServer (server.py)

\* tool names handle_call_tool is called with: the seven tools and a name
\* that is none of them
ToolNames ==
  {"take_screenshot", "analyze_screen", "click_element", "type_text",
   "press_key", "get_window_list", "focus_window", "no_such_tool"}

\* the keys present in the arguments dict
ArgumentSets ==
  {{}, {"x"}, {"x", "y"}, {"element_description"},
   {"x", "element_description"}, {"x", "y", "element_description"},
   {"task_description"}, {"text"}, {"key"}, {"window_name"}}

\* what the collaborator method does when it is called: it returns a result
\* with success true, a result with success false and an error, a result
\* json.dumps cannot encode, or it raises
CollaboratorOutcomes == {"success", "failure", "unserializable", "raises"}

\* server.py lines 158-205: the collaborator method the call is routed to;
\* a subscript of a missing key raises KeyError before the method is called
Route(name, arguments) ==
  IF name = "take_screenshot" THEN "take_screenshot"
  ELSE IF name = "analyze_screen"
  THEN IF "task_description" \in arguments THEN "analyze_screen" ELSE "KeyError"
  ELSE IF name = "click_element"
  THEN IF "x" \in arguments /\ "y" \in arguments THEN "click_coordinates"
       ELSE IF "element_description" \in arguments
       THEN "click_element_by_description"
       ELSE "ValueError"
  ELSE IF name = "type_text"
  THEN IF "text" \in arguments THEN "type_text" ELSE "KeyError"
  ELSE IF name = "press_key"
  THEN IF "key" \in arguments THEN "press_key" ELSE "KeyError"
  ELSE IF name = "get_window_list" THEN "get_window_list"
  ELSE IF name = "focus_window"
  THEN IF "window_name" \in arguments THEN "focus_window" ELSE "KeyError"
  ELSE "ValueError"

\* server.py lines 157, 207: the statements the try block holds, by what
\* they do
TryCovers_no_dumps == {"route", "collaborator"}
TryCovers == {"route", "collaborator", "dumps"}

\* types.TextContent(type="text", text=json.dumps(...)) of a result dict
TextContent(success, error) ==
  [type |-> "text", text |-> [success |-> success, error |-> error]]

\* server.py lines 207-212 when the statement at raises e inside the try
\* block; outside of it the exception leaves the handler
Raised(name, arguments, at, e, events) ==
  [Call("handle_call_tool", -1, -1, "", "", <<>>,
        IF at \in TryCovers THEN "returned" ELSE e, events)
   EXCEPT !.name = name, !.arguments = arguments,
          !.returned = IF at \in TryCovers
                       THEN <<TextContent(FALSE, e)>> ELSE <<>>]

\* server.py lines 152-212
handle_call_tool(name, arguments, outcome) ==
  /\ UNCHANGED <<analysis_vars, context_vars, mapped>>
  /\ LET method == Route(name, arguments)
     IN IF method \in {"KeyError", "ValueError"}
        THEN last' = Raised(name, arguments, "route", method, <<>>)
        ELSE IF outcome = "raises"
        THEN last' = Raised(name, arguments, "collaborator", "Exception",
                            << <<method>> >>)
        ELSE IF outcome = "unserializable"
        THEN last' = Raised(name, arguments, "dumps", "TypeError", << <<method>> >>)
        ELSE last' =
               [Call("handle_call_tool", -1, -1, "", "", <<>>, "returned",
                     << <<method>> >>)
                EXCEPT !.name = name, !.arguments = arguments,
                       !.returned =
                         <<TextContent(outcome = "success",
                                       IF outcome = "success" THEN ""
                                       ELSE "collaborator")>>]

ServerNext ==
  \E name \in ToolNames, arguments \in ArgumentSets,
     outcome \in CollaboratorOutcomes :
    handle_call_tool(name, arguments, outcome)

ServerSpec == Init /\ [][ServerNext]_vars

\* ---------------------------------------- the coordinate expressions alone

\* (min, max) pairs of an element's bounds on one axis
BoundPairs ==
  {<<0, 0>>, <<1, 2>>, <<2, 4>>, <<10, 30>>, <<100, 200>>, <<960, 960>>}
ShapeValues == {0, 3, 960}
ScreenSizes == {<<1920, 1080>>, <<5, 4>>}
Paddings == {0, 7}

\* lines 120-121 (145-149, 176-177) on given operands: x is computed and
\* stored first, then y; a zero img_shape entry raises ZeroDivisionError.
\* drag is what a drag from the element to itself returns (lines 145-151).
MapPoint(position, img_shape, screen, padding) ==
  /\ mapped' =
       [drag |-> IF img_shape[1] = 0 \/ img_shape[2] = 0
                 THEN "ZeroDivisionError"
                 ELSE LET x == MapCoordWith(position.column_min, position.column_max,
                                            screen[1], img_shape[2], padding)
                      IN IF NotFound(x, x) THEN "False" ELSE "True",
        status |-> IF img_shape[1] = 0 \/ img_shape[2] = 0
                   THEN "ZeroDivisionError" ELSE "ok",
        position |-> position, img_shape |-> img_shape, screen |-> screen,
        padding |-> padding,
        x |-> IF img_shape[2] = 0 THEN 0
              ELSE MapCoordWith(position.column_min, position.column_max,
                                screen[1], img_shape[2], padding),
        y |-> IF img_shape[1] = 0 \/ img_shape[2] = 0 THEN 0
              ELSE MapCoordWith(position.row_min, position.row_max,
                                screen[2], img_shape[1], padding)]
  /\ UNCHANGED <<analysis_vars, context_vars, last>>

MapperNext ==
  \E c \in BoundPairs, r \in BoundPairs, rows \in ShapeValues, cols \in ShapeValues,
     screen \in ScreenSizes, padding \in Paddings :
    MapPoint([column_min |-> c[1], column_max |-> c[2],
              row_min |-> r[1], row_max |-> r[2]],
             <<rows, cols>>, screen, padding)

MapperSpec == Init /\ [][MapperNext]_vars

\* The analysis pass on a screen of S and the analyze_screen calls of the
\* callers in C.
AnalysisOn(C, S) ==
  \/ \E c \in C : omniparser_details_on_screen(c)
  \/ \E c \in C : Poll(c)
  \/ \E c \in C : Cancel(c)
  \/ \E p \in Passes : ThreadCapture(p, S)
  \/ \E p \in Passes : ThreadParse(p)
  \/ \E p \in Passes : ThreadBuffer(p)
  \/ \E p \in Passes : ThreadSave(p)
  \/ \E p \in Passes : ThreadText(p)
  \/ \E p \in Passes : ThreadFinish(p)
  \/ \E p \in Passes : ThreadRaise(p)

Analysis(C) == AnalysisOn(C, Screens)

\* The session controller: every caller, no action call.
Next == Analysis(Callers)

Spec == Init /\ [][Next]_vars

\* The action dispatcher, with one caller of analyze_screen.
DispatchNext ==
  \/ Analysis({1}) /\ started' <= DispatchPasses
  \/ \E id \in Ids, m \in ClickModes : omniparser_click(id, m[1], m[2], "none")
  \/ \E id \in Ids : omniparser_mouse_move(id, "none")
  \/ \E from_id \in Ids, to_id \in Ids, m \in DragModes :
       omniparser_drags(from_id, to_id, m[1], m[2], "none")
  \/ \E content \in Contents, id \in {-1} \cup Ids : omniparser_write(content, id)

DispatchSpec == Init /\ [][DispatchNext]_vars

\* The pointer handlers on a result whose image shape has a zero entry.
DegenerateNext ==
  \/ AnalysisOn({1}, MalformedScreens) /\ started' <= DispatchPasses
  \/ \E id \in Ids, m \in ClickModes : omniparser_click(id, m[1], m[2], "none")
  \/ \E id \in Ids : omniparser_mouse_move(id, "none")
  \/ \E from_id \in Ids, to_id \in Ids, m \in DragModes :
       omniparser_drags(from_id, to_id, m[1], m[2], "none")

DegenerateSpec == Init /\ [][DegenerateNext]_vars

\* Key presses at the position and window the clicks leave behind.
KeyboardNext ==
  \/ Analysis({1}) /\ started' <= DispatchPasses
  \/ \E id \in Ids, m \in ClickModes : omniparser_click(id, m[1], m[2], "none")
  \/ \E key1 \in FirstKeys, key2 \in SecondKeys, key3 \in ThirdKeys :
       omniparser_input_key(key1, key2, key3)

KeyboardSpec == Init /\ [][KeyboardNext]_vars

\* The request loop while callers wait: a caller that starts a pass, one
\* that joins it, and the handlers that act at the stored position.
LoopNext ==
  \/ Analysis({1, 2}) /\ started' <= DispatchPasses
  \/ \E clicks \in ScrollClicks : omniparser_scroll(clicks)
  \/ \E key1 \in FirstKeys, key2 \in SecondKeys, key3 \in ThirdKeys :
       omniparser_input_key(key1, key2, key3)
  \/ \E content \in Contents : omniparser_write(content, -1)

LoopSpec == Init /\ [][LoopNext]_vars

\* The stored position and window: the handlers that set them and the
\* handlers that act at them.
ContextNext ==
  \/ Analysis({1}) /\ started' <= DispatchPasses
  \/ \E id \in Ids : omniparser_click(id, "left", 1, "none")
  \/ \E id \in Ids : omniparser_mouse_move(id, "none")
  \/ \E from_id \in Ids, to_id \in Ids :
       omniparser_drags(from_id, to_id, "left", "", "none")
  \/ \E clicks \in ScrollClicks : omniparser_scroll(clicks)
  \/ \E key1 \in FirstKeys, key2 \in SecondKeys, key3 \in ThirdKeys :
       omniparser_input_key(key1, key2, key3)
  \/ \E content \in Contents : omniparser_write(content, -1)
  \/ omniparser_get_keys_list

ContextSpec == Init /\ [][ContextNext]_vars

\* Clicks, moves and drags whose input calls may raise.
FaultNext ==
  \/ Analysis({1}) /\ started' <= DispatchPasses
  \/ \E id \in Ids, m \in ClickModes, fail \in PointFaults :
       omniparser_click(id, m[1], m[2], fail)
  \/ \E id \in Ids, fail \in PointFaults : omniparser_mouse_move(id, fail)
  \/ \E from_id \in Ids, to_id \in Ids, m \in DragModes, fail \in DragFaults :
       omniparser_drags(from_id, to_id, m[1], m[2], fail)

FaultSpec == Init /\ [][FaultNext]_vars

\* Every caller of analyze_screen, and click and move between their calls.
RoundTripNext ==
  \/ Analysis(Callers)
  \/ \E id \in Ids : omniparser_click(id, "left", 1, "none")
  \/ \E id \in Ids : omniparser_mouse_move(id, "none")

RoundTripSpec == Init /\ [][RoundTripNext]_vars

\* Fairness the scheduling gives: the asyncio loop wakes every sleeping
\* caller, and the thread of a pass runs each statement it reaches.  Nothing
\* obliges a caller to call, a caller to give up, or a collaborator to raise.
Fairness ==
  /\ \A c \in Callers : WF_vars(Poll(c))
  /\ \A p \in Passes :
       /\ WF_vars(ThreadCapture(p, Screens))
       /\ WF_vars(ThreadParse(p))
       /\ WF_vars(ThreadBuffer(p))
       /\ WF_vars(ThreadSave(p))
       /\ WF_vars(ThreadText(p))
       /\ WF_vars(ThreadFinish(p))

FairSpec == Spec /\ Fairness

\* A session that never ends: pass names are used again once MaxPasses of
\* them have been given out (a pass that has ended takes no further step, and
\* the slot is free only when the pass before has ended), started holds the
\* name given last.  No caller gives up and no collaborator raises.
NextName == (started % MaxPasses) + 1

RecurringNext ==
  \/ \E c \in Callers : Request(c, NextName, NextName)
  \/ \E c \in Callers : Poll(c)
  \/ \E p \in Passes : ThreadCapture(p, Screens)
  \/ \E p \in Passes : ThreadParse(p)
  \/ \E p \in Passes : ThreadBuffer(p)
  \/ \E p \in Passes : ThreadSave(p)
  \/ \E p \in Passes : ThreadText(p)
  \/ \E p \in Passes : ThreadFinish(p)

RecurringSpec == Init /\ [][RecurringNext]_vars /\ Fairness

\* ------------------------------------------------------------- properties

\* passes whose thread is alive
Live == {p \in Passes : tpc[p] \notin {"new", "done", "raised"}}

\* phase = Running: the slot is taken and the pass has not signalled its end
PhaseRunning == omniparser_thread # NoThread /\ ~is_finished

\* C1: at most one background pass is in flight after every step, and an
\* analyze_screen request made while a pass is running starts no pass (the
\* count of passes started stays as it was).
C1_SingleFlight ==
  [][/\ Cardinality(Live') <= 1
     /\ \A c \in Callers :
          (PhaseRunning /\ omniparser_details_on_screen(c)) => started' = started]_vars

\* two callers wait on the one pass that is running
C1_Witness ==
  /\ PhaseRunning
  /\ started = 1
  /\ Cardinality(Live) = 1
  /\ pcc[1] = "polling" /\ pcc[2] = "polling"
  /\ waited[1] = 1 /\ waited[2] = 1

\* C2: every analyze_screen call that has waited for a pass (it started the
\* pass or found it running) and has returned gives the summary and the
\* preview of the pass it waited on.
C2_SameResultForAllWaiters ==
  \A c \in Callers :
    (pcc[c] = "returned" /\ Val(ret[c]).awaited) =>
      /\ Val(ret[c]).status = "ok"
      /\ Val(ret[c]).summary = Summary(ParseRaw(shot[waited[c]]))
      /\ Val(ret[c]).image = Png(shot[waited[c]])

\* C3: once a pass has raised, the thread slot is eventually released
\* (the phase is Idle again).
C3_FailureReleasesSlot ==
  \A p \in Passes : (tpc[p] = "raised") ~> (omniparser_thread = NoThread)

\* C4: when the pass in the slot has raised, the element registry holds what
\* it held just before that pass was requested.
C4_FailureKeepsRegistry ==
  \A p \in Passes :
    (tpc[p] = "raised" /\ omniparser_thread = p) => detail = held

\* C5: the visible result is absent as a whole, or present as a whole with
\* the element list and the preview of one and the same capture.
C5_NoPartialResult ==
  \/ detail = None /\ result_image = None
  \/ \E s \in Screens : detail = Some(ParseRaw(s)) /\ result_image = Some(Png(s))

\* the elements of the published result
Published == {Val(detail).compos[k] : k \in 1..Len(Val(detail).compos)}

\* id is carried by no element of the published result
Absent(id) == detail # None /\ \A e \in Published : e.id # id

\* id is carried by an element of the published result
Resolves(id) == detail # None /\ \E e \in Published : e.id = id

ElementOf(id) == CHOOSE e \in Published : e.id = id

\* the step is a call of the handler op (every handler call is recorded in last)
Handled(op) == last' # last /\ last'.op = op

\* the call returned false, called no collaborator and left the context alone
NoEffect ==
  /\ last'.result = "False"
  /\ last'.events = <<>>
  /\ UNCHANGED context_vars

\* C6: with a result published, click and move on an id no element carries,
\* and drag with such a from_id or to_id, return false, call no input
\* collaborator and leave mouse position and active window unchanged.
C6_AbsentIdNoEffect ==
  [][/\ ((Handled("click") \/ Handled("move")) /\ Absent(last'.id)) => NoEffect
     /\ (Handled("drag") /\ (Absent(last'.id) \/ Absent(last'.to_id)))
          => NoEffect]_vars

\* a drag with a modifier key from an element that exists to an id that
\* does not has returned false
C6_Witness ==
  /\ last.op = "drag"
  /\ last.key = "shift"
  /\ Resolves(last.id)
  /\ Absent(last.to_id)
  /\ last.result = "False"
  /\ last.events = <<>>

\* C7: with no result published, click, move and drag return false.
C7_NoResultReturnsFalse ==
  [][((Handled("click") \/ Handled("move") \/ Handled("drag")) /\ detail = None)
       => last'.result = "False"]_vars

\* C8: write with an id that resolves clicks the element's mapped point,
\* then delivers the text, and completes.
C8_WriteClicksThenTypes ==
  [][(Handled("write") /\ last'.id >= 0 /\ Resolves(last'.id)) =>
       LET compos == ElementOf(last'.id)
           ev == last'.events
       IN /\ last'.result = "None"
          /\ Len(ev) >= 2
          /\ ev[1][1] = "click"
          /\ ev[1][2] = MapX(compos, Val(detail))
          /\ ev[1][3] = MapY(compos, Val(detail))
          /\ ev[Len(ev)][1] \in {"write", "hotkey"}
          /\ current_mouse_x' = MapX(compos, Val(detail))
          /\ current_mouse_y' = MapY(compos, Val(detail))]_vars

\* the analysis a summary was built from (screens have distinct summaries)
AnalysisOf(S) == ParseRaw(CHOOSE s \in Screens : Summary(ParseRaw(s)) = S)

\* C9: for a summary returned since the last analyze request and an id n it
\* lists, click(n) and move(n) succeed and command the mapped point of the
\* n-th element of the analysis the summary was built from.
C9_RoundTrip ==
  [][\A S \in returned_since :
       ((Handled("click") \/ Handled("move")) /\ last'.id < Len(S)) =>
          /\ last'.result = "True"
          /\ current_mouse_x' = MapX(AnalysisOf(S).compos[last'.id + 1], AnalysisOf(S))
          /\ current_mouse_y' = MapY(AnalysisOf(S).compos[last'.id + 1], AnalysisOf(S))]_vars

\* a finished pass sits in the slot and no caller waits for it
Leftover ==
  /\ omniparser_thread # NoThread
  /\ is_finished
  /\ \A c \in Callers : pcc[c] # "polling"

\* C10 as stated: the request that finds an abandoned, finished pass starts
\* a fresh pass.
C10_FreshPassAfterAbandon ==
  [][\A c \in Callers :
       (Leftover /\ omniparser_details_on_screen(c)) =>
          /\ started' = started + 1
          /\ pcc'[c] = "polling"]_vars

\* C10 as amended: the request that finds an abandoned, finished pass starts
\* no pass; it returns at once with the preview of the abandoned pass and
\* frees the slot.
C10_CollectsAbandonedPass ==
  [][\A c \in Callers :
       (Leftover /\ omniparser_details_on_screen(c)) =>
          /\ started' = started
          /\ pcc'[c] = "returned"
          /\ Val(ret'[c]).status = "ok"
          /\ Val(ret'[c]).image = Png(shot[omniparser_thread])
          /\ omniparser_thread' = NoThread]_vars

\* caller 1 is the only caller there ever was, one pass was started, and
\* caller 1 has the preview of that pass from a call that never slept
C10_Witness ==
  /\ started = 1
  /\ tpc[1] = "done"
  /\ \A c \in Callers \ {1} : pcc[c] = "idle"
  /\ pcc[1] = "returned"
  /\ ~Val(ret[1]).awaited
  /\ Val(ret[1]).image = Png(shot[1])
  /\ omniparser_thread = NoThread

\* ------------------------------------------------------ coordinate mapper

\* numerator and denominator of the quotient an axis is mapped by
NumX == (mapped.position.column_min + mapped.position.column_max)
          * (mapped.screen[1] + 2 * mapped.padding)
DenX == 2 * mapped.img_shape[2]
NumY == (mapped.position.row_min + mapped.position.row_max)
          * (mapped.screen[2] + 2 * mapped.padding)
DenY == 2 * mapped.img_shape[1]

\* r is an integer nearest to num / den
Nearest(r, num, den) == 2 * (num - r * den) <= den /\ 2 * (r * den - num) <= den

\* r is num / den with the fraction dropped
Floor(r, num, den) == r * den <= num /\ num < (r + 1) * den

\* C11 as stated: the commanded point is the rounded midpoint formula.
C11_RoundedMidpoint ==
  mapped.status = "ok" =>
    /\ Nearest(mapped.x + mapped.padding, NumX, DenX)
    /\ Nearest(mapped.y + mapped.padding, NumY, DenY)

\* C11 as amended: the commanded point is the midpoint formula with the
\* quotient truncated, not rounded.
C11_TruncatedMidpoint ==
  mapped.status = "ok" =>
    /\ Floor(mapped.x + mapped.padding, NumX, DenX)
    /\ Floor(mapped.y + mapped.padding, NumY, DenY)

\* the scenario of the specification: (300, 22), where rounding half up gives 23
C11_Witness ==
  /\ mapped.status = "ok"
  /\ mapped.position = [column_min |-> 100, column_max |-> 200,
                        row_min |-> 10, row_max |-> 30]
  /\ mapped.img_shape = <<960, 960>>
  /\ mapped.screen = <<1920, 1080>>
  /\ mapped.padding = 0
  /\ mapped.x = 300
  /\ mapped.y = 22

\* the bounds lie inside the analysed image
InsideImage ==
  /\ 0 <= mapped.position.column_min
  /\ mapped.position.column_min <= mapped.position.column_max
  /\ mapped.position.column_max <= mapped.img_shape[2]
  /\ 0 <= mapped.position.row_min
  /\ mapped.position.row_min <= mapped.position.row_max
  /\ mapped.position.row_max <= mapped.img_shape[1]

\* the mapped point lies in [-P, screen_width + P] x [-P, screen_height + P]
WithinMargins ==
  /\ -mapped.padding <= mapped.x
  /\ mapped.x <= mapped.screen[1] + mapped.padding
  /\ -mapped.padding <= mapped.y
  /\ mapped.y <= mapped.screen[2] + mapped.padding

\* two evaluations on equal operands give equal points
SameInputsSamePoint ==
  (/\ mapped'.position = mapped.position
   /\ mapped'.img_shape = mapped.img_shape
   /\ mapped'.screen = mapped.screen
   /\ mapped'.padding = mapped.padding
   /\ mapped.status # "none") =>
    (mapped'.status = mapped.status /\ mapped'.x = mapped.x /\ mapped'.y = mapped.y)

\* C12: for bounds inside the image and a margin P >= 0 the mapped point lies
\* in [-P, screen_width + P] x [-P, screen_height + P], and equal operands
\* give equal points.
C12_PointWithinMargins ==
  /\ []((mapped.status = "ok" /\ InsideImage /\ mapped.padding >= 0) => WithinMargins)
  /\ [][SameInputsSamePoint]_vars

\* an element that fills the image to its last column and row, with a margin:
\* the point is the far corner of the padded screen
C12_Witness ==
  /\ mapped.status = "ok"
  /\ InsideImage
  /\ mapped.padding = 7
  /\ mapped.position.column_min = mapped.img_shape[2]
  /\ mapped.position.row_min = mapped.img_shape[1]
  /\ mapped.x = mapped.screen[1] + 7
  /\ mapped.y = mapped.screen[2] + 7

\* ------------------------------------------------------- degenerate shape

\* the published image shape has zero rows or zero columns
ZeroShape ==
  detail # None /\ (Val(detail).img_shape[1] = 0 \/ Val(detail).img_shape[2] = 0)

\* C13: click, move and drag on an id that resolves while the published
\* image shape has zero rows or zero columns end in a failure, issue no
\* pointer action and leave mouse position and active window as they were.
C13_ZeroShapeLeavesContext ==
  [][(/\ Handled("click") \/ Handled("move") \/ Handled("drag")
      /\ ZeroShape
      /\ Resolves(last'.id) \/ (last'.op = "drag" /\ Resolves(last'.to_id)))
       => /\ last'.result \notin {"True", "False"}
          /\ last'.events = <<>>
          /\ UNCHANGED context_vars]_vars

\* -------------------------------------------------------------------- drag

\* C14: a drag whose from_id or to_id does not resolve in the current result
\* returns false, issues no key-down, key-up, pointer move or drag, whatever
\* the modifier key is, and leaves mouse position and active window unchanged.
C14_UnresolvedDragNoEffect ==
  [][(Handled("drag") /\ ~(Resolves(last'.id) /\ Resolves(last'.to_id)))
       => NoEffect]_vars

\* positions of the calls named name among the input calls of the last call
Calls(name) == {i \in 1..Len(last'.events) : last'.events[i][1] = name}

\* C15: in a drag whose two ids resolve, a non-empty modifier is pressed
\* before the pointer moves to the source and released after the drag to the
\* destination, a pressed modifier is released by the time the call ends, and
\* an empty modifier issues no key event.
C15_ModifierReleased ==
  [][(Handled("drag") /\ Resolves(last'.id) /\ Resolves(last'.to_id)) =>
       IF last'.key # ""
       THEN /\ \A m \in Calls("moveTo") : \E k \in Calls("keyDown") : k < m
            /\ \A u \in Calls("keyUp") : \E g \in Calls("dragTo") : g < u
            /\ \A k \in Calls("keyDown") : \E u \in Calls("keyUp") : k < u
            /\ last'.result = "True" => Calls("keyDown") # {} /\ Calls("keyUp") # {}
       ELSE Calls("keyDown") \cup Calls("keyUp") = {}]_vars

\* ---------------------------------------------------------------- keyboard

\* the key names of the calls named name among the input calls of the last
\* call, in call order
KeysOf(name) ==
  LET sel == SelectSeq(last'.events, LAMBDA e : e[1] = name)
  IN [i \in 1..Len(sel) |-> sel[i][2]]

\* the non-empty key names the last call was given, in argument order
Supplied == SelectSeq(last'.keys, LAMBDA k : k # "")

\* C16: press_keys presses every non-empty key it is given, in argument
\* order, and releases the pressed keys in reverse order; no supplied key is
\* dropped, whichever of key2 and key3 are empty.
C16_EveryKeyPressed ==
  [][Handled("input_key") =>
       /\ KeysOf("keyDown") = Supplied
       /\ KeysOf("keyUp") = Reverse(Supplied)]_vars

\* ------------------------------------------------------------------- write

\* the text has no code point above 127 (the empty text has none)
OnlyAscii(content) == \A i \in 1..Len(content) : content[i] <= 127

\* the input calls of the last call that carry the text
Typed == SelectSeq(last'.events, LAMBDA e : e[1] = "write")
Copied == SelectSeq(last'.events, LAMBDA e : e[1] = "copy")
Pasted == SelectSeq(last'.events, LAMBDA e : e[1] = "hotkey")

\* C17: every write call delivers its text by exactly one route: ASCII text
\* (the empty text included) is typed directly with no clipboard access, any
\* other text is copied to the clipboard and pasted with no direct typing.
C17_OneRoutePerCall ==
  [][Handled("write") =>
       IF OnlyAscii(last'.content)
       THEN /\ Typed = << <<"write", last'.content>> >>
            /\ Copied = <<>>
            /\ Pasted = <<>>
       ELSE /\ Typed = <<>>
            /\ Copied = << <<"copy", last'.content>> >>
            /\ Pasted = << <<"hotkey", "ctrl", "v">> >>]_vars

\* C18: write with id = -1 completes without error in every session state:
\* it activates the stored window, moves the pointer to the stored mouse
\* position, then delivers the text, whatever the element registry holds,
\* and leaves the registry and the stored context as they were.
C18_WriteWithoutIdNeedsNoRegistry ==
  [][(Handled("write") /\ last'.id = -1) =>
       LET ev == last'.events
       IN /\ last'.result = "None"
          /\ Len(ev) \in {3, 4}
          /\ ev[1] = <<"activate", current_window>>
          /\ ev[2] = <<"moveTo", current_mouse_x, current_mouse_y>>
          /\ ev[3][1] \in {"write", "copy"}
          /\ ev[3][2] = last'.content
          /\ Len(ev) = 4 => ev[4][1] = "hotkey"
          /\ UNCHANGED <<detail, context_vars>>]_vars

\* a text has been written with id = -1 while the first pass is still
\* running and no result has ever been published
C18_Witness ==
  /\ last.op = "write"
  /\ last.id = -1
  /\ last.content # <<>>
  /\ last.result = "None"
  /\ Len(last.events) >= 3
  /\ detail = None
  /\ held = None
  /\ PhaseRunning

\* ----------------------------------------------------------- session phase

\* the step is a polling analyze_screen call seeing the pass completed and
\* returning with it
Collects == \E c \in Callers : pcc[c] = "polling" /\ pcc'[c] = "returned"

\* C19: the element list that click, move and drag resolve ids against
\* changes only at the step where a polling analyze_screen call collects the
\* completed pass.
C19_RegistryChangesOnlyAtCollect ==
  [][detail' # detail => Collects]_vars

\* the session phase as the slot and the flag encode it
Phase ==
  IF omniparser_thread = NoThread THEN "Idle"
  ELSE IF is_finished THEN "Completed"
  ELSE "Running"

\* C20: the phase moves only from Idle to Running (a request that starts a
\* pass), from Running to Completed (the pass reaching its end) and from
\* Completed to Idle (a call that sees the completion and returns); the
\* phase is not reset to Idle while a pass is alive, and a pass is started
\* in Idle only.
C20_PhaseCycle ==
  [][/\ Phase' # Phase =>
          \/ /\ Phase = "Idle"
             /\ Phase' = "Running"
             /\ started' = started + 1
          \/ /\ Phase = "Running"
             /\ Phase' = "Completed"
             /\ \E p \in Passes : tpc[p] = "l90" /\ tpc'[p] = "done"
          \/ /\ Phase = "Completed"
             /\ Phase' = "Idle"
             /\ \E c \in Callers : pcc'[c] = "returned"
     /\ (Phase # "Idle" /\ Phase' = "Idle") => Live = {}
     /\ started' # started => Phase = "Idle"]_vars

\* the second pass has completed while one caller has returned from the
\* first and another is still waiting: the cycle has been gone through once
\* and is at Completed again
C20_Witness ==
  /\ started = 2
  /\ Phase = "Completed"
  /\ \E c \in Callers : pcc[c] = "returned" /\ waited[c] = 1
  /\ \E c \in Callers : pcc[c] = "polling"

\* ---------------------------------------------------------------- liveness

\* C21: when no pass raises and every sleeping caller is woken, every
\* analyze_screen call that waits eventually returns, for the caller that
\* started the pass and for every caller that joined it, also when other
\* callers keep making new requests.
C21_EveryCallReturns ==
  \A c \in Callers : (pcc[c] = "polling") ~> (pcc[c] = "returned")

\* ------------------------------------------------------------ request loop

\* a pass is running and a call is waiting on it
Waiting == PhaseRunning /\ \E c \in Callers : pcc[c] = "polling"

\* the handlers that act at the stored position
Untargeted == {"scroll", "input_key", "write"}

\* C22: while a pass is running and calls wait on it, the request loop is
\* free: scroll, press_keys, write with id = -1 and a further analyze_screen
\* request can start, and the action calls complete while the pass is still
\* running.
C22_LoopNotBlocked ==
  /\ [](Waiting =>
          /\ \A clicks \in ScrollClicks : ENABLED omniparser_scroll(clicks)
          /\ ENABLED omniparser_input_key("ctrl", "shift", "c")
          /\ \A content \in Contents : ENABLED omniparser_write(content, -1)
          /\ \A c \in {1, 2} :
               pcc[c] # "polling" => ENABLED omniparser_details_on_screen(c))
  /\ [][(Waiting /\ last' # last /\ last'.op \in Untargeted) =>
          /\ last'.result = "None"
          /\ Len(last'.events) >= 3
          /\ PhaseRunning'
          /\ UNCHANGED pcc]_vars

\* a text has been written with a pass running, one caller waiting on the
\* pass it started and another that joined it
C22_Witness ==
  /\ Waiting
  /\ last.op = "write"
  /\ last.result = "None"
  /\ \E c, j \in Callers :
       /\ c # j
       /\ pcc[c] = "polling"
       /\ pcc[j] = "polling"
       /\ owner[omniparser_thread] = c
       /\ waited[j] = omniparser_thread

\* ------------------------------------------------------ cursor and focus

\* the step is a click, move or drag that returned true
Succeeds ==
  /\ last' # last
  /\ last'.op \in {"click", "move", "drag"}
  /\ last'.result = "True"

\* the element whose point the last call commands: the destination for drag
Target == ElementOf(IF last'.op = "drag" THEN last'.to_id ELSE last'.id)

\* the position of the physical pointer call among the input calls
PointerCall ==
  CHOOSE i \in 1..Len(last'.events) :
    last'.events[i][1] = (IF last'.op = "drag" THEN "dragTo"
                          ELSE IF last'.op = "click" THEN "click" ELSE "moveTo")
                       /\ (last'.op = "drag" \/ i = 1)

\* C23: the stored mouse position is the point commanded by the most recent
\* click, move or drag that succeeded (the seeded position before the first):
\* a step that is no such success leaves it alone, and a success stores the
\* mapped point of its element, returns true and refreshes the stored window
\* from the foreground window after the physical action.
C23_PositionOfLastSuccess ==
  [][IF Succeeds
     THEN /\ current_mouse_x' = MapX(Target, Val(detail))
          /\ current_mouse_y' = MapY(Target, Val(detail))
          /\ last'.events[PointerCall][2] = current_mouse_x'
          /\ last'.events[PointerCall][3] = current_mouse_y'
          /\ last'.events[Len(last'.events)] = <<"getActiveWindow", current_window'>>
          /\ PointerCall < Len(last'.events)
     ELSE UNCHANGED <<current_mouse_x, current_mouse_y>>]_vars

\* C26: a click or a move on a resolving id whose input call fails leaves
\* mouse position and active window as they were before the call.
C26_FailedPointerKeepsContext ==
  [][(/\ Handled("click") \/ Handled("move")
      /\ Resolves(last'.id)
      /\ last'.result = "FailSafeException")
       => UNCHANGED context_vars]_vars

\* the input calls that carry the effect of a handler acting at the stored
\* position
Effects == {"scroll", "keyDown", "keyUp", "write", "copy", "hotkey"}

\* C24: scroll, press_keys and write with id = -1 first activate the stored
\* window, then move the pointer to the stored position, then issue the
\* scroll, key or text effect; no effect comes before the two.
C24_RestoreBeforeEffect ==
  [][(last' # last /\ last'.op \in Untargeted /\ last'.id = -1) =>
       LET ev == last'.events
       IN /\ Len(ev) >= 3
          /\ ev[1] = <<"activate", current_window>>
          /\ ev[2] = <<"moveTo", current_mouse_x, current_mouse_y>>
          /\ \A i \in 1..Len(ev) : (ev[i][1] \in Effects) <=> (i >= 3)]_vars

\* keys have been pressed at a position an earlier click stored
C24_Witness ==
  /\ last.op = "input_key"
  /\ Len(last.events) = 8
  /\ last.events[2] = <<"moveTo", current_mouse_x, current_mouse_y>>
  /\ current_mouse_x # 5

\* C25: mouse position and active window are changed by click, move and
\* drag only: analyze_screen (request, pass and collection), scroll,
\* press_keys, list_keys and write with id = -1 leave them unchanged.
C25_OnlyPointerHandlersChangeContext ==
  [][/\ context_vars' # context_vars =>
          (last' # last /\ last'.op \in {"click", "move", "drag"})
     /\ (last' # last /\ last'.op \in {"scroll", "input_key", "get_keys_list", "write"})
          => UNCHANGED context_vars
     /\ analysis_vars' # analysis_vars => UNCHANGED context_vars]_vars

\* the screen has been scrolled at the point of the second element of a
\* two-element screen, stored by an earlier click, move or drag, after the
\* analysis was collected
C25_Witness ==
  /\ last.op = "scroll"
  /\ last.events[2] = <<"moveTo", current_mouse_x, current_mouse_y>>
  /\ current_mouse_x = 900
  /\ Phase = "Idle"
  /\ detail # None

Unservable ==
  \/ last'.name \notin {"take_screenshot", "analyze_screen", "click_element",
                         "type_text", "press_key", "get_window_list",
                         "focus_window"}
  \/ last'.name = "click_element"
       /\ ~({"x", "y"} \subseteq last'.arguments)
       /\ "element_description" \notin last'.arguments
  \/ last'.name = "analyze_screen" /\ "task_description" \notin last'.arguments
  \/ last'.name = "type_text" /\ "text" \notin last'.arguments
  \/ last'.name = "press_key" /\ "key" \notin last'.arguments
  \/ last'.name = "focus_window" /\ "window_name" \notin last'.arguments

\* C28: handle_call_tool returns exactly one text result for every tool name
\* and argument set and never raises; an unknown tool, a click_element call
\* with neither both coordinates nor a description, and an exception of a
\* collaborator give the result with success false and an error message; a
\* click_element call with coordinates and a description clicks the
\* coordinates.
C28_CallToolIsTotal ==
  [][Handled("handle_call_tool") =>
       /\ last'.result = "returned"
       /\ Len(last'.returned) = 1
       /\ last'.returned[1].type = "text"
       /\ Unservable =>
            /\ last'.events = <<>>
            /\ last'.returned[1].text.success = FALSE
            /\ last'.returned[1].text.error # ""
       /\ (~Unservable /\ last'.returned[1].text.error \in {"Exception", "TypeError"})
            => last'.returned[1].text.success = FALSE
       /\ ~Unservable => Len(last'.events) = 1
       /\ (last'.name = "click_element" /\ {"x", "y"} \subseteq last'.arguments)
            => last'.events = << <<"click_coordinates">> >>]_vars

\* a click_element call with coordinates and a description whose
\* collaborator returned a result that cannot be encoded has got the
\* structured failure
C28_Witness ==
  /\ last.op = "handle_call_tool"
  /\ last.name = "click_element"
  /\ last.arguments = {"x", "y", "element_description"}
  /\ last.events = << <<"click_coordinates">> >>
  /\ last.returned = <<TextContent(FALSE, "TypeError")>>

====
